---- MODULE Spec2Model ----
(***************************************************************************)
(* Model of uc3m_money.AccountManager (account_manager.py).                *)
(*                                                                         *)
(* Strings the code inspects character by character (IBANs, concepts,      *)
(* dates, deposit amounts, transaction amounts) are tuples of one-char     *)
(* strings.  A JSON store file is a record [st, recs]: st is "missing"     *)
(* (no file), "malformed" (not JSON) or "ok" (a JSON array, recs).         *)
(* Transfer amounts are counted in thousandths, deposit amounts in cents.  *)
(***************************************************************************)
EXTENDS Integers, Sequences, FiniteSets, TLC

VARIABLES transfers,     \* TRANSFERS_STORE_FILE
          deposits,      \* DEPOSITS_STORE_FILE
          transactions,  \* TRANSACTIONS_STORE_FILE
          balances,      \* BALANCES_STORE_FILE
          last,          \* the call that ended last: [op, args, res]
          pc,            \* concurrent callers: position in transfer_request
          t_l,           \* concurrent callers: the local list t_l
          my_request,    \* concurrent callers: the local my_request
          savers         \* concurrent callers: who wrote the file, in order

vars == <<transfers, deposits, transactions, balances, last,
          pc, t_l, my_request, savers>>

stores == <<transfers, deposits, transactions, balances>>

---------------------------------------------------------------------------
(* Bounds *)

\* number of trailing BBAN digits that range over 0..9 in SpecIban
MaxTail == 1
\* records the three written stores may hold together in Spec
MaxRecords == 2
\* largest clock reading
MaxTime == 1
\* concurrent callers in SpecConc
NumCallers == 2

---------------------------------------------------------------------------
(* Characters and results *)

Digits == <<"0", "1", "2", "3", "4", "5", "6", "7", "8", "9">>

UpperCase == <<"A", "B", "C", "D", "E", "F", "G", "H", "I", "J", "K", "L", "M",
               "N", "O", "P", "Q", "R", "S", "T", "U", "V", "W", "X", "Y", "Z">>

LowerCase == <<"a", "b", "c", "d", "e", "f", "g", "h", "i", "j", "k", "l", "m",
               "n", "o", "p", "q", "r", "s", "t", "u", "v", "w", "x", "y", "z">>

Range(s) == {s[i] : i \in DOMAIN s}

DigitSet == Range(Digits)

UpperSet == Range(UpperCase)

LetterSet == Range(UpperCase) \cup Range(LowerCase)

IsDigit(c) == c \in DigitSet

IsLetter(c) == c \in LetterSet

\* \s of Python's re, for the characters of the model
IsSpace(c) == c \in {" ", "\t"}

IndexOf(s, c) == CHOOSE i \in DOMAIN s : s[i] = c

DigitTable == [c \in DigitSet |-> IndexOf(Digits, c) - 1]

UpperTable == [c \in UpperSet |-> IndexOf(UpperCase, c) - 1]

\* int(c) for one digit character
DigitVal(c) == DigitTable[c]

\* int(s) for a string of digits short enough for machine integers
RECURSIVE IntOfFirst(_, _)
IntOfFirst(s, n) == IF n = 0 THEN 0
                    ELSE 10 * IntOfFirst(s, n - 1) + DigitVal(s[n])

ToInt(s) == IntOfFirst(s, Len(s))

\* a normal return and a raised AccountManagementException
Return(v) == [exc |-> FALSE, msg |-> "", val |-> v]

Raise(m) == [exc |-> TRUE, msg |-> m, val |-> <<>>]

---------------------------------------------------------------------------
(* validate_iban *)

\* re.compile(r"^ES[0-9]{22}").fullmatch(iban)
_check_iban_format(iban) ==
    /\ Len(iban) = 24
    /\ iban[1] = "E"
    /\ iban[2] = "S"
    /\ \A i \in 3..24 : IsDigit(iban[i])

\* alphanum_map.get(c, c): A..Z become "10".."35", anything else is kept
alphanum_map(c) ==
    IF c \in UpperSet
    THEN LET n == 10 + UpperTable[c]
         IN  <<Digits[(n \div 10) + 1], Digits[(n % 10) + 1]>>
    ELSE <<c>>

\* ''.join(alphanum_map.get(c, c) for c in s)
RECURSIVE JoinFirst(_, _)
JoinFirst(s, n) == IF n = 0 THEN <<>>
                   ELSE JoinFirst(s, n - 1) \o alphanum_map(s[n])

JoinMapped(s) == JoinFirst(s, Len(s))

\* int(s) % 97; the integer has 26 digits, so the remainder is carried
\* digit by digit: int(s . d) % 97 = (10 * (int(s) % 97) + d) % 97
RECURSIVE Mod97OfFirst(_, _)
Mod97OfFirst(s, n) == IF n = 0 THEN 0
                      ELSE (10 * Mod97OfFirst(s, n - 1) + DigitVal(s[n])) % 97

IntMod97(s) == Mod97OfFirst(s, Len(s))

\* variant: the first four characters are not moved to the end
CheckDigitsMutant(iban) ==
    LET rearranged_iban == SubSeq(iban, 1, 2) \o <<"0", "0">> \o SubSeq(iban, 5, Len(iban))
        numeric_iban == JoinMapped(rearranged_iban)
    IN  98 - IntMod97(numeric_iban)

_calculate_check_digits(iban) ==
    LET replaced == SubSeq(iban, 1, 2) \o <<"0", "0">> \o SubSeq(iban, 5, Len(iban))
        rearranged_iban == SubSeq(replaced, 5, Len(replaced)) \o SubSeq(replaced, 1, 4)
        numeric_iban == JoinMapped(rearranged_iban)
        mod_result == IntMod97(numeric_iban)
    IN  98 - mod_result

validate_iban(iban) ==
    IF ~_check_iban_format(iban)
    THEN Raise("Invalid IBAN format")
    ELSE LET expected_check_digits == _calculate_check_digits(iban)
             actual_check_digits == ToInt(SubSeq(iban, 3, 4))
         IN  IF expected_check_digits # actual_check_digits
             THEN Raise("Invalid IBAN control digit")
             ELSE Return(iban)

---------------------------------------------------------------------------
(* Field validators *)

\* re.compile(r"^(?=^.{10,30}$)([a-zA-Z]+(\s[a-zA-Z]+)+)$").fullmatch(concept)
ConceptMatches(concept) ==
    /\ Len(concept) >= 10
    /\ Len(concept) <= 30
    /\ \A i \in DOMAIN concept : IsLetter(concept[i]) \/ IsSpace(concept[i])
    /\ IsLetter(concept[1])
    /\ IsLetter(concept[Len(concept)])
    /\ \A i \in 1..(Len(concept) - 1) : ~(IsSpace(concept[i]) /\ IsSpace(concept[i + 1]))
    /\ \E i \in DOMAIN concept : IsSpace(concept[i])

validate_concept(concept) ==
    IF ~ConceptMatches(concept)
    THEN Raise("Invalid concept format")
    ELSE Return(concept)

\* re.compile(r"(ORDINARY|INMEDIATE|URGENT)").fullmatch(transfer_type)
validate_transfer_type(transfer_type) ==
    IF transfer_type \notin {"ORDINARY", "INMEDIATE", "URGENT"}
    THEN Raise("Invalid transfer type")
    ELSE Return(transfer_type)

\* re.compile(r"^(([0-2]\d|3[0-1])\/(0\d|1[0-2])\/\d\d\d\d)$").fullmatch(t_d)
DateMatches(t_d) ==
    /\ Len(t_d) = 10
    /\ \/ t_d[1] \in {"0", "1", "2"} /\ IsDigit(t_d[2])
       \/ t_d[1] = "3" /\ t_d[2] \in {"0", "1"}
    /\ t_d[3] = "/"
    /\ \/ t_d[4] = "0" /\ IsDigit(t_d[5])
       \/ t_d[4] = "1" /\ t_d[5] \in {"0", "1", "2"}
    /\ t_d[6] = "/"
    /\ \A i \in 7..10 : IsDigit(t_d[i])

IsLeap(y) == (y % 4 = 0 /\ y % 100 # 0) \/ y % 400 = 0

DaysInMonth(m, y) ==
    IF m = 2 THEN (IF IsLeap(y) THEN 29 ELSE 28)
    ELSE IF m \in {4, 6, 9, 11} THEN 30 ELSE 31

\* datetime.strptime(t_d, "%d/%m/%Y").date(): the date, or ValueError
strptime(t_d) ==
    LET d == ToInt(SubSeq(t_d, 1, 2))
        m == ToInt(SubSeq(t_d, 4, 5))
        y == ToInt(SubSeq(t_d, 7, 10))
    IN  IF y >= 1 /\ m >= 1 /\ m <= 12 /\ d >= 1 /\ d <= DaysInMonth(m, y)
        THEN Return([year |-> y, month |-> m, day |-> d])
        ELSE Raise("ValueError")

\* date.__lt__
DateLess(a, b) ==
    \/ a.year < b.year
    \/ a.year = b.year /\ a.month < b.month
    \/ a.year = b.year /\ a.month = b.month /\ a.day < b.day

\* datetime.now(timezone.utc).date()
Today == [year |-> 2026, month |-> 11, day |-> 5]

validate_transfer_date(t_d) ==
    IF ~DateMatches(t_d)
    THEN Raise("Invalid date format")
    ELSE LET my_date == strptime(t_d)
         IN  IF my_date.exc
             THEN Raise("Invalid date format")
             ELSE IF DateLess(my_date.val, Today)
             THEN Raise("Transfer date must be today or later.")
             ELSE IF my_date.val.year < 2025 \/ my_date.val.year > 2050
             THEN Raise("Invalid date format")
             ELSE Return(t_d)

\* An amount argument: a number, held in thousandths, or a text float() rejects
Num(m) == [numeric |-> TRUE, milli |-> m]

NotANumber == [numeric |-> FALSE, milli |-> 0]

\* len(str(f_amount).split('.')[1]): str() of a float prints the shortest
\* digits that read back as the same float, and at least one after the point
decimales(milli) ==
    LET f == (IF milli < 0 THEN 0 - milli ELSE milli) % 1000
    IN  IF f % 100 = 0 THEN 1 ELSE IF f % 10 = 0 THEN 2 ELSE 3

\* variant: the lower bound is exclusive
AmountCheckMutant(amount) ==
    IF ~amount.numeric
    THEN Raise("Invalid transfer amount")
    ELSE IF decimales(amount.milli) > 2
    THEN Raise("Invalid transfer amount")
    ELSE IF amount.milli <= 10000 \/ amount.milli > 10000000
    THEN Raise("Invalid transfer amount")
    ELSE Return(amount)

validate_transfer_amount(amount) ==
    IF ~amount.numeric
    THEN Raise("Invalid transfer amount")
    ELSE IF decimales(amount.milli) > 2
    THEN Raise("Invalid transfer amount")
    ELSE IF amount.milli < 10000 \/ amount.milli > 10000000
    THEN Raise("Invalid transfer amount")
    ELSE Return(amount)

\* the checks of transfer_request, in the order the code makes them
TransferChecks(from_iban, to_iban, concept, transfer_type, date, amount) ==
    LET from_checked == validate_iban(from_iban)
        to_checked == validate_iban(to_iban)
        concept_checked == validate_concept(concept)
        type_checked == validate_transfer_type(transfer_type)
        date_checked == validate_transfer_date(date)
    IN  IF from_checked.exc THEN from_checked
        ELSE IF to_checked.exc THEN to_checked
        ELSE IF concept_checked.exc THEN concept_checked
        ELSE IF type_checked.exc THEN type_checked
        ELSE IF date_checked.exc THEN date_checked
        ELSE validate_transfer_amount(amount)

---------------------------------------------------------------------------
(* Record types (transfer_request.py, account_deposit.py are not part of   *)
(* the sources at hand: modelled from the specification, sections 4.3, 6)  *)

\* the identifier derived from the content of a transfer
transfer_code(from_iban, to_iban, concept, transfer_type, date, amount) ==
    <<"transfer_code", from_iban, to_iban, concept, transfer_type, date, amount>>

TransferRequest(from_iban, to_iban, concept, transfer_type, date, amount) ==
    [from_iban |-> from_iban,
     to_iban |-> to_iban,
     transfer_concept |-> concept,
     transfer_type |-> transfer_type,
     transfer_date |-> date,
     transfer_amount |-> amount,
     transfer_code |-> transfer_code(from_iban, to_iban, concept,
                                     transfer_type, date, amount)]

\* TransferRequest.to_json
transfer_to_json(request) ==
    [from_iban |-> request.from_iban,
     to_iban |-> request.to_iban,
     transfer_concept |-> request.transfer_concept,
     transfer_date |-> request.transfer_date,
     transfer_amount |-> request.transfer_amount,
     transfer_type |-> request.transfer_type,
     transfer_code |-> request.transfer_code]

\* the identifier derived from the content of a deposit
deposit_signature(to_iban, deposit_amount, time_stamp) ==
    <<"deposit_signature", to_iban, deposit_amount, time_stamp>>

AccountDeposit(to_iban, deposit_amount, time_stamp) ==
    [to_iban |-> to_iban,
     deposit_amount |-> deposit_amount,
     time_stamp |-> time_stamp,
     deposit_signature |-> deposit_signature(to_iban, deposit_amount, time_stamp)]

\* AccountDeposit.to_json
deposit_to_json(deposit) ==
    [to_iban |-> deposit.to_iban,
     deposit_amount |-> deposit.deposit_amount,
     deposit_signature |-> deposit.deposit_signature,
     time_stamp |-> deposit.time_stamp]

---------------------------------------------------------------------------
(* Store files *)

Missing == [st |-> "missing", recs |-> <<>>]

Malformed == [st |-> "malformed", recs |-> <<>>]

\* open(..., "r") and json.load, where a missing file reads as []
load_or_empty(file) ==
    IF file.st = "missing" THEN Return(<<>>)
    ELSE IF file.st = "malformed"
    THEN Raise("JSON Decode Error - Wrong JSON Format")
    ELSE Return(file.recs)

\* open(..., "w") and json.dump(list, file, indent=2): the whole file is rewritten
json_dump(list) == [st |-> "ok", recs |-> list]

\* the records a store file holds
Contents(file) == file.recs

---------------------------------------------------------------------------
(* transfer_request *)

\* variant: the scan compares transfer codes, and the wrong way round
IsDuplicateMutant(t_i, request) ==
    t_i.transfer_code # request.transfer_code

\* the condition of the duplicate scan, for one stored record
IsDuplicate(t_i, request) ==
    /\ t_i.from_iban = request.from_iban
    /\ t_i.to_iban = request.to_iban
    /\ t_i.transfer_date = request.transfer_date
    /\ t_i.transfer_amount = request.transfer_amount
    /\ t_i.transfer_concept = request.transfer_concept
    /\ t_i.transfer_type = request.transfer_type

\* variant: the scan stops one record short of the end
HasDuplicateMutant(list, request) ==
    \E i \in 1..(Len(list) - 1) : IsDuplicate(list[i], request)

\* for t_i in t_l: if ...: raise
HasDuplicate(list, request) == \E i \in DOMAIN list : IsDuplicate(list[i], request)

\* t_l.append(my_request.to_json())
transfer_list_append(list, request) == Append(list, transfer_to_json(request))

TransferArgs(from_iban, to_iban, concept, transfer_type, date, amount) ==
    [from_iban |-> from_iban, to_iban |-> to_iban, concept |-> concept,
     transfer_type |-> transfer_type, date |-> date, amount |-> amount]

RequestOf(a) ==
    TransferRequest(a.from_iban, a.to_iban, a.concept, a.transfer_type, a.date, a.amount)

\* what transfer_request returns or raises, given the file it finds
transfer_outcome(file, a) ==
    LET checked == TransferChecks(a.from_iban, a.to_iban, a.concept,
                                  a.transfer_type, a.date, a.amount)
        loaded == load_or_empty(file)
    IN  IF checked.exc THEN checked
        ELSE IF loaded.exc THEN loaded
        ELSE IF HasDuplicate(loaded.val, RequestOf(a))
        THEN Raise("Duplicated transfer in transfer list")
        ELSE Return(RequestOf(a).transfer_code)

\* variant: the file is written before the duplicate scan
TransferFileMutant(file, a) ==
    LET checked == TransferChecks(a.from_iban, a.to_iban, a.concept,
                                  a.transfer_type, a.date, a.amount)
        loaded == load_or_empty(file)
    IN  IF checked.exc \/ loaded.exc
        THEN file
        ELSE json_dump(transfer_list_append(loaded.val, RequestOf(a)))

\* the transfers file as transfer_request leaves it: written last, and only
\* when nothing was raised before
transfer_file_after(file, a) ==
    IF transfer_outcome(file, a).exc
    THEN file
    ELSE json_dump(transfer_list_append(load_or_empty(file).val, RequestOf(a)))

Ended(op, args, res) == last' = [op |-> op, args |-> args, res |-> res]

transfer_request(from_iban, to_iban, concept, transfer_type, date, amount) ==
    LET a == TransferArgs(from_iban, to_iban, concept, transfer_type, date, amount)
    IN  /\ transfers' = transfer_file_after(transfers, a)
        /\ Ended("transfer_request", a, transfer_outcome(transfers, a))
        /\ UNCHANGED <<deposits, transactions, balances, pc, t_l, my_request, savers>>

---------------------------------------------------------------------------
(* deposit_into_account *)

\* re.compile(r"^EUR [0-9]{4}\.[0-9]{2}").fullmatch(deposit_amount)
DepositAmountMatches(deposit_amount) ==
    /\ Len(deposit_amount) = 11
    /\ SubSeq(deposit_amount, 1, 4) = <<"E", "U", "R", " ">>
    /\ \A i \in 5..8 : IsDigit(deposit_amount[i])
    /\ deposit_amount[9] = "."
    /\ \A i \in 10..11 : IsDigit(deposit_amount[i])

\* float(deposit_amount[4:]), in cents
deposit_float(deposit_amount) ==
    100 * ToInt(SubSeq(deposit_amount, 5, 8)) + ToInt(SubSeq(deposit_amount, 10, 11))

\* the input file: absent, not JSON, or a JSON object with the keys in `keys`
InputFile(st, keys, iban, amount) ==
    [st |-> st, keys |-> keys, IBAN |-> iban, AMOUNT |-> amount]

\* everything deposit_into_account does before it builds the AccountDeposit;
\* returns d_a_f
DepositChecks(input_file) ==
    IF input_file.st = "missing" THEN Raise("Error: file input not found")
    ELSE IF input_file.st = "malformed"
    THEN Raise("JSON Decode Error - Wrong JSON Format")
    ELSE IF ~({"IBAN", "AMOUNT"} \subseteq input_file.keys)
    THEN Raise("Error - Invalid Key in JSON")
    ELSE IF validate_iban(input_file.IBAN).exc
    THEN Raise(validate_iban(input_file.IBAN).msg)
    ELSE IF ~DepositAmountMatches(input_file.AMOUNT)
    THEN Raise("Error - Invalid deposit amount")
    ELSE IF deposit_float(input_file.AMOUNT) = 0
    THEN Raise("Error - Deposit must be greater than 0")
    ELSE Return(<<deposit_float(input_file.AMOUNT)>>)

\* variant: a deposit already stored is not appended again
DepositListMutant(d_l, deposit_obj) ==
    IF \E i \in DOMAIN d_l : /\ d_l[i].to_iban = deposit_obj.to_iban
                             /\ d_l[i].deposit_amount = deposit_obj.deposit_amount
    THEN d_l
    ELSE Append(d_l, deposit_to_json(deposit_obj))

\* d_l.append(deposit_obj.to_json())
deposit_list_append(d_l, deposit_obj) == Append(d_l, deposit_to_json(deposit_obj))

deposit_into_account(input_file, now) ==
    LET args == [input_file |-> input_file]
        checked == DepositChecks(input_file)
        deposit_obj == AccountDeposit(input_file.IBAN, checked.val[1], now)
        loaded == load_or_empty(deposits)
    IN  /\ UNCHANGED <<transfers, transactions, balances, pc, t_l, my_request, savers>>
        /\ IF checked.exc
           THEN Ended("deposit_into_account", args, checked) /\ UNCHANGED deposits
           ELSE IF loaded.exc
           THEN Ended("deposit_into_account", args, loaded) /\ UNCHANGED deposits
           ELSE /\ deposits' = json_dump(deposit_list_append(loaded.val, deposit_obj))
                /\ Ended("deposit_into_account", args,
                         Return(deposit_obj.deposit_signature))

---------------------------------------------------------------------------
(* calculate_balance *)

read_transactions_file ==
    IF transactions.st = "missing" THEN Raise("Wrong file  or file path")
    ELSE IF transactions.st = "malformed"
    THEN Raise("JSON Decode Error - Wrong JSON Format")
    ELSE Return(transactions.recs)

\* float(transaction["amount"]) for the text of a whole number
amount_float(text) ==
    IF Head(text) = "-" THEN 0 - ToInt(Tail(text)) ELSE ToInt(text)

\* variant: bal_s is assigned, not added to
RECURSIVE ScanMutant(_, _, _)
ScanMutant(list, n, iban) ==
    IF n = 0 THEN [iban_found |-> FALSE, bal_s |-> 0]
    ELSE LET front == ScanMutant(list, n - 1, iban)
             transaction == list[n]
         IN  IF transaction.IBAN = iban
             THEN [iban_found |-> TRUE, bal_s |-> amount_float(transaction.amount)]
             ELSE front

\* the loop over t_l, through its first n transactions: iban_found and bal_s
RECURSIVE scan_transactions(_, _, _)
scan_transactions(list, n, iban) ==
    IF n = 0 THEN [iban_found |-> FALSE, bal_s |-> 0]
    ELSE LET front == scan_transactions(list, n - 1, iban)
             transaction == list[n]
         IN  IF transaction.IBAN = iban
             THEN [iban_found |-> TRUE,
                   bal_s |-> front.bal_s + amount_float(transaction.amount)]
             ELSE front

\* variant: the snapshot is put first
BalanceListMutant(balance_list, last_balance) == <<last_balance>> \o balance_list

\* balance_list.append(last_balance)
balance_list_append(balance_list, last_balance) == Append(balance_list, last_balance)

\* variant: the snapshots are written to the transactions file
BalanceTargetMutant(balance_list) ==
    /\ transactions' = json_dump(balance_list)
    /\ UNCHANGED balances

\* the write that ends calculate_balance
write_balances(balance_list) ==
    /\ balances' = json_dump(balance_list)
    /\ UNCHANGED transactions

calculate_balance(iban_arg, now) ==
    LET args == [iban |-> iban_arg]
        iban == validate_iban(iban_arg)
        listed == read_transactions_file
        scan == scan_transactions(listed.val, Len(listed.val), iban.val)
        last_balance == [IBAN |-> iban.val, time |-> now, BALANCE |-> scan.bal_s]
        loaded == load_or_empty(balances)
    IN  /\ UNCHANGED <<transfers, deposits, pc, t_l, my_request, savers>>
        /\ IF iban.exc
           THEN Ended("calculate_balance", args, iban) /\ UNCHANGED <<transactions, balances>>
           ELSE IF listed.exc
           THEN Ended("calculate_balance", args, listed) /\ UNCHANGED <<transactions, balances>>
           ELSE IF ~scan.iban_found
           THEN /\ Ended("calculate_balance", args, Raise("IBAN not found"))
                /\ UNCHANGED <<transactions, balances>>
           ELSE IF loaded.exc
           THEN Ended("calculate_balance", args, loaded) /\ UNCHANGED <<transactions, balances>>
           ELSE /\ write_balances(balance_list_append(loaded.val, last_balance))
                /\ Ended("calculate_balance", args, Return(<<TRUE>>))

---------------------------------------------------------------------------
(* Inputs *)

IbanV1 == <<"E", "S", "9", "1", "2", "1", "0", "0", "0", "4", "1", "8", "4", "5", "0", "2", "0", "0", "0", "5", "1", "3", "3", "2">>

IbanV2 == <<"E", "S", "7", "9", "2", "1", "0", "0", "0", "8", "1", "3", "6", "1", "0", "1", "2", "3", "4", "5", "6", "7", "8", "9">>

\* a wrong control digit, one digit short, one digit too many, lower case,
\* a letter among the digits
IbanBadCheck == <<"E", "S", "9", "2", "2", "1", "0", "0", "0", "4", "1", "8", "4", "5", "0", "2", "0", "0", "0", "5", "1", "3", "3", "2">>

IbanBadFormat == <<"E", "S", "9", "1", "2", "1", "0", "0", "0", "4", "1", "8", "4", "5", "0", "2", "0", "0", "0", "5", "1", "3", "3">>

IbanTooLong == <<"E", "S", "9", "1", "2", "1", "0", "0", "0", "4", "1", "8", "4", "5", "0", "2", "0", "0", "0", "5", "1", "3", "3", "2", "1">>

IbanLowerCase == <<"e", "s", "9", "1", "2", "1", "0", "0", "0", "4", "1", "8", "4", "5", "0", "2", "0", "0", "0", "5", "1", "3", "3", "2">>

IbanWithLetter == <<"E", "S", "9", "1", "2", "1", "0", "0", "0", "4", "X", "8", "4", "5", "0", "2", "0", "0", "0", "5", "1", "3", "3", "2">>

ConceptOk == <<"r", "e", "n", "t", " ", "p", "a", "y", "m", "e", "n", "t">>

ConceptBad == <<"r", "e", "n", "t">>

DateOk == <<"3", "1", "/", "1", "2", "/", "2", "0", "3", "0">>

DatePast == <<"0", "1", "/", "0", "1", "/", "2", "0", "2", "0">>

DateUnreal == <<"3", "0", "/", "0", "2", "/", "2", "0", "3", "0">>

DateFar == <<"0", "1", "/", "0", "1", "/", "2", "0", "5", "1">>

Times == 0..MaxTime

FromIbanInputs == {IbanV1, IbanV2, IbanBadCheck}

ToIbanInputs == {IbanV2, IbanBadFormat}

ConceptInputs == {ConceptOk, ConceptBad}

TypeInputs == {"ORDINARY", "INMEDIATE", "IMMEDIATE"}

DateInputs == {DateOk, DatePast, DateUnreal, DateFar}

\* 9.99, 10.00, 10.001, 12.34, 10000.00, 10000.01 and a text that is no number
AmountInputs == {Num(9990), Num(10000), Num(10001), Num(12340), Num(10000000),
                 Num(10000010), NotANumber}

BaseTransfer == TransferArgs(IbanV1, IbanV2, ConceptOk, "ORDINARY", DateOk, Num(10000))

\* one transfer with each of its fields taking each of its values in turn
TransferInputs ==
    {[BaseTransfer EXCEPT !.from_iban = f] : f \in FromIbanInputs}
    \cup {[BaseTransfer EXCEPT !.to_iban = t] : t \in ToIbanInputs}
    \cup {[BaseTransfer EXCEPT !.concept = c] : c \in ConceptInputs}
    \cup {[BaseTransfer EXCEPT !.transfer_type = ty] : ty \in TypeInputs}
    \cup {[BaseTransfer EXCEPT !.date = d] : d \in DateInputs}
    \cup {[BaseTransfer EXCEPT !.amount = a] : a \in AmountInputs}

DepositAmountOk == <<"E", "U", "R", " ", "0", "0", "1", "0", ".", "5", "0">>

DepositAmountZero == <<"E", "U", "R", " ", "0", "0", "0", "0", ".", "0", "0">>

DepositAmountBad == <<"E", "U", "R", " ", "1", "0", ".", "5", "0">>

AllKeys == {"IBAN", "AMOUNT"}

DepositInputs ==
    {InputFile("missing", {}, <<>>, <<>>),
     InputFile("malformed", {}, <<>>, <<>>),
     InputFile("ok", {"IBAN"}, IbanV1, <<>>)}
    \cup {InputFile("ok", AllKeys, i, a) :
            i \in {IbanV1, IbanBadCheck},
            a \in {DepositAmountOk, DepositAmountZero, DepositAmountBad}}

Transaction(iban, amount) == [IBAN |-> iban, amount |-> amount]

\* the transactions file is written by another program: any of these
TransactionFiles ==
    {Missing,
     Malformed,
     json_dump(<<>>),
     json_dump(<<Transaction(IbanV1, <<"1", "0", "0">>), Transaction(IbanV1, <<"-", "3", "0">>)>>),
     json_dump(<<Transaction(IbanV1, <<"1", "0", "0">>), Transaction(IbanBadCheck, <<"5", "0">>),
                 Transaction(IbanV1, <<"-", "3", "0">>), Transaction(IbanV2, <<"5">>),
                 Transaction(IbanV1, <<"5">>)>>)}

BalanceIbanInputs == {IbanV1, IbanV2, IbanBadCheck}

---------------------------------------------------------------------------
(* Sequential use: one call after another.  The three files this program   *)
(* writes are written by it alone, so they start absent and are only ever  *)
(* what json.dump left; the transactions file is whatever was put there.   *)

NoCall == [op |-> "none", args |-> [none |-> TRUE], res |-> Return(<<>>)]

Init ==
    /\ transfers = Missing
    /\ deposits = Missing
    /\ balances = Missing
    /\ transactions \in TransactionFiles
    /\ last = NoCall
    /\ pc = <<>>
    /\ t_l = <<>>
    /\ my_request = <<>>
    /\ savers = <<>>

TotalRecords == Len(transfers.recs) + Len(deposits.recs) + Len(balances.recs)

\* calls are made while the written files hold fewer than MaxRecords records
CallTransfer ==
    \E a \in TransferInputs :
        /\ TotalRecords < MaxRecords
        /\ transfer_request(a.from_iban, a.to_iban, a.concept, a.transfer_type,
                            a.date, a.amount)

CallDeposit ==
    \E input_file \in DepositInputs, now \in Times :
        /\ TotalRecords < MaxRecords
        /\ deposit_into_account(input_file, now)

CallBalance ==
    \E iban \in BalanceIbanInputs, now \in Times :
        /\ TotalRecords < MaxRecords
        /\ calculate_balance(iban, now)

Next == CallTransfer \/ CallDeposit \/ CallBalance

Spec == Init /\ [][Next]_vars

---------------------------------------------------------------------------
(* validate_iban alone, over a range of strings *)

BbanStems == {SubSeq(IbanV1, 5, 24), SubSeq(IbanV2, 5, 24)}

DigitStrings(n) == [1..n -> DigitSet]

IbanDomain ==
    {<<"E", "S">> \o pair \o SubSeq(stem, 1, 20 - MaxTail) \o tail :
        pair \in DigitStrings(2), stem \in BbanStems, tail \in DigitStrings(MaxTail)}
    \cup {IbanBadFormat, IbanTooLong, IbanLowerCase, IbanWithLetter}

InitIban ==
    /\ transfers = Missing
    /\ deposits = Missing
    /\ balances = Missing
    /\ transactions = Missing
    /\ last = NoCall
    /\ pc = <<>>
    /\ t_l = <<>>
    /\ my_request = <<>>
    /\ savers = <<>>

CallValidateIban ==
    \E iban \in IbanDomain :
        /\ last = NoCall
        /\ Ended("validate_iban", [iban |-> iban], validate_iban(iban))
        /\ UNCHANGED <<transfers, deposits, transactions, balances,
                       pc, t_l, my_request, savers>>

NextIban == CallValidateIban

SpecIban == InitIban /\ [][NextIban]_vars

---------------------------------------------------------------------------
(* Concurrent transfer_request calls on one transfers file.  Each caller   *)
(* makes one call; its steps are the checks, the read of the file, the     *)
(* duplicate scan with the local append, and the write with the return.    *)
(* last[p] holds caller p's arguments from the start of its call and its   *)
(* result once pc[p] = "returned".                                         *)

Callers == 1..NumCallers

ConcInputs ==
    {BaseTransfer,
     [BaseTransfer EXCEPT !.from_iban = IbanV2],
     [BaseTransfer EXCEPT !.amount = Num(9990)]}

InitConc ==
    /\ transfers \in {Missing, json_dump(<<transfer_to_json(RequestOf(BaseTransfer))>>)}
    /\ deposits = Missing
    /\ balances = Missing
    /\ transactions = Missing
    /\ last = [p \in Callers |-> NoCall]
    /\ pc = [p \in Callers |-> "idle"]
    /\ t_l = [p \in Callers |-> <<>>]
    /\ my_request = [p \in Callers |-> RequestOf(BaseTransfer)]
    /\ savers = <<>>

Returned(p, a, res) ==
    /\ last' = [last EXCEPT ![p] = [op |-> "transfer_request", args |-> a, res |-> res]]
    /\ pc' = [pc EXCEPT ![p] = "returned"]

\* the checks, and my_request = TransferRequest(...)
Begin(p, a) ==
    LET checked == TransferChecks(a.from_iban, a.to_iban, a.concept,
                                  a.transfer_type, a.date, a.amount)
    IN  /\ pc[p] = "idle"
        /\ IF checked.exc
           THEN Returned(p, a, checked) /\ UNCHANGED my_request
           ELSE /\ my_request' = [my_request EXCEPT ![p] = RequestOf(a)]
                /\ pc' = [pc EXCEPT ![p] = "load"]
                /\ last' = [last EXCEPT ![p] = [op |-> "transfer_request", args |-> a,
                                               res |-> Return(<<>>)]]
        /\ UNCHANGED <<transfers, deposits, transactions, balances, t_l, savers>>

\* t_l = json.load(file), or [] without the file
LoadTransfers(p) ==
    LET loaded == load_or_empty(transfers)
    IN  /\ pc[p] = "load"
        /\ IF loaded.exc
           THEN Returned(p, last[p].args, loaded) /\ UNCHANGED t_l
           ELSE /\ t_l' = [t_l EXCEPT ![p] = loaded.val]
                /\ pc' = [pc EXCEPT ![p] = "scan"]
                /\ UNCHANGED last
        /\ UNCHANGED <<transfers, deposits, transactions, balances, my_request, savers>>

\* the duplicate scan, then t_l.append(my_request.to_json())
ScanTransfers(p) ==
    /\ pc[p] = "scan"
    /\ IF HasDuplicate(t_l[p], my_request[p])
       THEN /\ Returned(p, last[p].args, Raise("Duplicated transfer in transfer list"))
            /\ UNCHANGED t_l
       ELSE /\ t_l' = [t_l EXCEPT ![p] = transfer_list_append(t_l[p], my_request[p])]
            /\ pc' = [pc EXCEPT ![p] = "save"]
            /\ UNCHANGED last
    /\ UNCHANGED <<transfers, deposits, transactions, balances, my_request, savers>>

\* variant: the write re-reads the file and appends to what it finds
WrittenListMutant(p) ==
    transfer_list_append(load_or_empty(transfers).val, my_request[p])

\* the list json.dump writes: the caller's own t_l
written_list(p) == t_l[p]

\* json.dump(t_l, file, indent=2) and return my_request.transfer_code
SaveTransfers(p) ==
    /\ pc[p] = "save"
    /\ transfers' = json_dump(written_list(p))
    /\ savers' = Append(savers, p)
    /\ Returned(p, last[p].args, Return(my_request[p].transfer_code))
    /\ UNCHANGED <<deposits, transactions, balances, t_l, my_request>>

NextConc ==
    \E p \in Callers :
        \/ \E a \in ConcInputs : Begin(p, a)
        \/ LoadTransfers(p)
        \/ ScanTransfers(p)
        \/ SaveTransfers(p)

SpecConc == InitConc /\ [][NextConc]_vars

---------------------------------------------------------------------------
(* Properties *)

IsPrefix(s, t) == Len(s) <= Len(t) /\ SubSeq(t, 1, Len(s)) = s

\* a stored transfer has the six business fields of the arguments a
SameSix(rec, a) ==
    /\ rec.from_iban = a.from_iban
    /\ rec.to_iban = a.to_iban
    /\ rec.transfer_date = a.date
    /\ rec.transfer_amount = a.amount
    /\ rec.transfer_concept = a.concept
    /\ rec.transfer_type = a.transfer_type

CountMatching(file, a) ==
    Cardinality({i \in DOMAIN Contents(file) : SameSix(Contents(file)[i], a)})

\* the transfers of TransferInputs whose six fields are all valid
ValidTransferInputs ==
    {BaseTransfer,
     [BaseTransfer EXCEPT !.from_iban = IbanV2],
     [BaseTransfer EXCEPT !.transfer_type = "INMEDIATE"],
     [BaseTransfer EXCEPT !.amount = Num(12340)],
     [BaseTransfer EXCEPT !.amount = Num(10000000)]}

Duplicated == Raise("Duplicated transfer in transfer list")

C1_Step(a) ==
    (last'.op = "transfer_request" /\ last'.args = a) =>
        /\ CountMatching(transfers, a) = 0 =>
              /\ ~last'.res.exc
              /\ last'.res.val = transfer_code(a.from_iban, a.to_iban, a.concept,
                                               a.transfer_type, a.date, a.amount)
              /\ CountMatching(transfers', a) = 1
        /\ (last.op = "transfer_request" /\ last.args = a /\ ~last.res.exc) =>
              /\ last'.res = Duplicated
              /\ CountMatching(transfers', a) = 1

\* C1: with no record of the same six fields stored, the first of two
\* successive transfer_request calls with the same valid values returns the
\* transfer code, the second raises the duplicate error, and the store then
\* holds exactly one record with those six fields.
C1_DuplicateTransfer == [][\A a \in ValidTransferInputs : C1_Step(a)]_vars

C1_Witness ==
    /\ last.op = "transfer_request"
    /\ last.res = Duplicated
    /\ CountMatching(transfers, last.args) = 1

\* C2: a call that ends in an error leaves all four collections as they were.
C2_NoPartialWrite == [][last'.res.exc => stores' = stores]_vars

C2_Witness ==
    /\ last.op = "deposit_into_account"
    /\ last.res = Raise("Error - Deposit must be greater than 0")
    /\ Len(Contents(deposits)) = 1

GrowsAtEnd(file, after) ==
    /\ IsPrefix(Contents(file), Contents(after))
    /\ Len(Contents(after)) <= Len(Contents(file)) + 1

GrowsByOne(file, after) == Len(Contents(after)) = Len(Contents(file)) + 1

\* C3: across every call each collection's old contents are a prefix of its
\* new contents, and a successful call adds exactly one record, at the end of
\* its own collection.
C3_AppendOnly ==
    [][/\ GrowsAtEnd(transfers, transfers')
       /\ GrowsAtEnd(deposits, deposits')
       /\ GrowsAtEnd(transactions, transactions')
       /\ GrowsAtEnd(balances, balances')
       /\ (last'.op = "transfer_request" /\ ~last'.res.exc)
             => GrowsByOne(transfers, transfers')
       /\ (last'.op = "deposit_into_account" /\ ~last'.res.exc)
             => GrowsByOne(deposits, deposits')
       /\ (last'.op = "calculate_balance" /\ ~last'.res.exc)
             => GrowsByOne(balances, balances')]_vars

C3_Witness ==
    /\ Len(Contents(balances)) = 2
    /\ Contents(balances)[1] # Contents(balances)[2]

\* 10^k mod 97
RECURSIVE Pow10Mod97(_)
Pow10Mod97(k) == IF k = 0 THEN 1 ELSE (10 * Pow10Mod97(k - 1)) % 97

PowerTable == [k \in 0..25 |-> Pow10Mod97(k)]

\* the digits of N: the last 20 digits of the IBAN, then 1428 for "ES", then 00
RefDigits(iban) == [i \in 1..20 |-> DigitTable[iban[i + 4]]] \o <<1, 4, 2, 8, 0, 0>>

\* the sum of the first n digits of ds, each times its power of ten mod 97
RECURSIVE WeightedSum(_, _)
WeightedSum(ds, n) ==
    IF n = 0 THEN 0
    ELSE WeightedSum(ds, n - 1) + ds[n] * PowerTable[Len(ds) - n]

\* 98 - (N mod 97)
RefCheckDigits(iban) == 98 - (WeightedSum(RefDigits(iban), 26) % 97)

EsAnd22Digits(iban) ==
    /\ Len(iban) = 24
    /\ SubSeq(iban, 1, 2) = <<"E", "S">>
    /\ \A i \in 3..24 : iban[i] \in DigitSet

\* "ES" and 22 digits, the first two of them the check digits of the rest
RefValid(iban) ==
    /\ EsAnd22Digits(iban)
    /\ 10 * DigitTable[iban[3]] + DigitTable[iban[4]] = RefCheckDigits(iban)

\* iban differs from an IBAN that is RefValid in one digit of the check pair
OneCheckDigitOff(iban) ==
    /\ EsAnd22Digits(iban)
    /\ \E pos \in {3, 4}, d \in DigitSet :
          d # iban[pos] /\ RefValid([iban EXCEPT ![pos] = d])

\* the number an amount text of the transactions files stands for
RefAmount(text) ==
    CASE text = <<"1", "0", "0">> -> 100
      [] text = <<"-", "3", "0">> -> 0 - 30
      [] text = <<"5", "0">> -> 50
      [] text = <<"5">> -> 5

RECURSIVE RefBalance(_, _)
RefBalance(recs, iban) ==
    IF recs = <<>> THEN 0
    ELSE (IF Head(recs).IBAN = iban THEN RefAmount(Head(recs).amount) ELSE 0)
         + RefBalance(Tail(recs), iban)

Listed(iban) == \E i \in DOMAIN Contents(transactions) : Contents(transactions)[i].IBAN = iban

C4_Step(iban) ==
    IF Listed(iban)
    THEN /\ last'.res = Return(<<TRUE>>)
         /\ GrowsByOne(balances, balances')
         /\ IsPrefix(Contents(balances), Contents(balances'))
         /\ Contents(balances')[Len(Contents(balances'))].IBAN = iban
         /\ Contents(balances')[Len(Contents(balances'))].BALANCE
               = RefBalance(Contents(transactions), iban)
    ELSE /\ last'.res = Raise("IBAN not found")
         /\ balances' = balances

\* C4 as stated: for any target and any transactions collection,
\* calculate_balance appends one snapshot with the sum of the target's
\* amounts when the target is listed, and else raises IBAN not found.
C4_AnyTarget ==
    [][\A iban \in BalanceIbanInputs :
          (last'.op = "calculate_balance" /\ last'.args.iban = iban
           /\ transactions.st = "ok") => C4_Step(iban)]_vars


\* C4, amended: for a target that is a valid IBAN and any transactions
\* collection, calculate_balance appends one snapshot with the target and the
\* sum of the target's amounts and returns true when the target is listed,
\* and else raises IBAN not found and appends nothing.
C4_ValidTarget ==
    [][\A iban \in BalanceIbanInputs :
          (last'.op = "calculate_balance" /\ last'.args.iban = iban
           /\ transactions.st = "ok" /\ RefValid(iban)) => C4_Step(iban)]_vars

C4_Witness ==
    /\ last.op = "calculate_balance"
    /\ last.res = Return(<<TRUE>>)
    /\ Len(Contents(transactions)) = 2
    /\ Len(Contents(balances)) = 1
    /\ Contents(balances)[1].BALANCE = 70

\* C5: no call changes the transactions collection, and each operation
\* changes at most its own collection.
C5_Frame ==
    [][/\ transactions' = transactions
       /\ last'.op = "transfer_request" => UNCHANGED <<deposits, balances>>
       /\ last'.op = "deposit_into_account" => UNCHANGED <<transfers, balances>>
       /\ last'.op = "calculate_balance" => UNCHANGED <<transfers, deposits>>]_vars

C5_Witness ==
    /\ last.op = "calculate_balance"
    /\ ~last.res.exc
    /\ Len(Contents(transactions)) = 5
    /\ Len(Contents(balances)) = 1

\* deposit inputs with a valid IBAN and a well-formed amount that is not zero
ValidDepositInputs == {InputFile("ok", AllKeys, IbanV1, DepositAmountOk)}

\* C6: every deposit_into_account call with a valid IBAN and a well-formed
\* non-zero amount succeeds and appends exactly one record with that IBAN and
\* amount, whatever the deposits collection already holds.
C6_NoDeduplication ==
    [][\A d \in ValidDepositInputs :
          (last'.op = "deposit_into_account" /\ last'.args.input_file = d) =>
              /\ ~last'.res.exc
              /\ GrowsByOne(deposits, deposits')
              /\ IsPrefix(Contents(deposits), Contents(deposits'))
              /\ Contents(deposits')[Len(Contents(deposits'))].to_iban = d.IBAN
              /\ Contents(deposits')[Len(Contents(deposits'))].deposit_amount = 1050]_vars

C6_Witness ==
    /\ last.op = "deposit_into_account"
    /\ ~last.res.exc
    /\ Len(Contents(deposits)) = 2
    /\ Contents(deposits)[1].to_iban = Contents(deposits)[2].to_iban
    /\ Contents(deposits)[1].deposit_amount = Contents(deposits)[2].deposit_amount

\* C7: validate_iban returns unchanged every "ES" + 22 digits whose check
\* digits are 98 - (N mod 97), and raises the control digit error for every
\* string that differs from such an IBAN in one digit of the check pair.
C7_IbanValidation ==
    last.op = "validate_iban" =>
        /\ RefValid(last.args.iban) => last.res = Return(last.args.iban)
        /\ OneCheckDigitOff(last.args.iban)
              => last.res = Raise("Invalid IBAN control digit")

C7_Witness ==
    /\ last.op = "validate_iban"
    /\ last.args.iban = IbanV1
    /\ last.res = Return(IbanV1)

\* at most 2 fractional digits and within [10.00, 10000.00], in thousandths
InRangeTwoDigits(milli) ==
    /\ milli % 10 = 0
    /\ milli >= 10 * 1000
    /\ milli <= 10000 * 1000

InvalidAmount == Raise("Invalid transfer amount")

AmountsTried == {9990, 10000, 10001, 12340, 10000000, 10000010}

\* C8 as stated: with the other fields valid, every amount of at most 2
\* fractional digits in [10.00, 10000.00] succeeds, every other one raises
\* the amount error and nothing is appended.
C8_AlwaysSucceeds ==
    [][\A m \in AmountsTried :
          (last'.op = "transfer_request"
           /\ last'.args = [BaseTransfer EXCEPT !.amount = Num(m)]) =>
              IF InRangeTwoDigits(m)
              THEN ~last'.res.exc
              ELSE last'.res = InvalidAmount /\ transfers' = transfers]_vars

\* C8, amended: with the other fields valid, an amount of at most 2
\* fractional digits in [10.00, 10000.00] is accepted: the call succeeds and
\* appends the record, unless a record with the same six fields is stored,
\* and then it raises the duplicate error; every other amount raises the
\* amount error and nothing is appended.
C8_AmountRange ==
    [][\A m \in AmountsTried :
          (last'.op = "transfer_request"
           /\ last'.args = [BaseTransfer EXCEPT !.amount = Num(m)]) =>
              IF InRangeTwoDigits(m)
              THEN IF CountMatching(transfers, last'.args) = 0
                   THEN ~last'.res.exc /\ GrowsByOne(transfers, transfers')
                   ELSE last'.res = Duplicated /\ transfers' = transfers
              ELSE last'.res = InvalidAmount /\ transfers' = transfers]_vars

C8_Witness ==
    /\ last.op = "transfer_request"
    /\ last.args.amount = Num(10000000)
    /\ ~last.res.exc
    /\ CountMatching(transfers, last.args) = 1

\* the list a caller read, once it has appended its own record to it
Loaded(p) == SubSeq(t_l[p], 1, Len(t_l[p]) - 1)

Acknowledged(p) == pc[p] = "returned" /\ ~last[p].res.exc

\* p and q read the same contents, both were acknowledged, q wrote last
Raced(p, q) ==
    /\ p # q
    /\ Acknowledged(p)
    /\ Acknowledged(q)
    /\ savers # <<>>
    /\ savers[Len(savers)] = q
    /\ Loaded(p) = Loaded(q)
    /\ my_request[p] # my_request[q]

\* C9: when two calls for different transfers both read the file before
\* either writes it, and both return a transfer code, the file is what the
\* last writer read plus its own record: the other caller's record is lost.
C9_LastWriterWins ==
    \A p \in Callers, q \in Callers :
        Raced(p, q) =>
            /\ Contents(transfers) = Append(Loaded(q), transfer_to_json(my_request[q]))
            /\ \A i \in DOMAIN Contents(transfers) :
                  Contents(transfers)[i] # transfer_to_json(my_request[p])

C9_Witness == \E p \in Callers, q \in Callers : Raced(p, q)

SameBusinessFields(r1, r2) ==
    /\ r1.from_iban = r2.from_iban
    /\ r1.to_iban = r2.to_iban
    /\ r1.transfer_date = r2.transfer_date
    /\ r1.transfer_amount = r2.transfer_amount
    /\ r1.transfer_concept = r2.transfer_concept
    /\ r1.transfer_type = r2.transfer_type

\* C10: under every interleaving of the callers' steps the transfers file
\* never holds two records that agree on all six business fields.
C10_NoDuplicateRecords ==
    \A i \in DOMAIN Contents(transfers), j \in DOMAIN Contents(transfers) :
        i < j => ~SameBusinessFields(Contents(transfers)[i], Contents(transfers)[j])

C10_Witness ==
    \E p \in Callers, q \in Callers :
        /\ p # q
        /\ Acknowledged(p)
        /\ Acknowledged(q)
        /\ my_request[p] = my_request[q]
        /\ Len(savers) >= 2
        /\ Len(Contents(transfers)) = 1
====
